---- MODULE Spec2Model ----
(***************************************************************************)
(* Verification model of Preprocessing/Images_Preprocessing.py:            *)
(*   trim_and_resize          crop to the bright bounding box, resize so   *)
(*                            the longer side is output_size, pad square   *)
(*   process_and_save_images  batch driver over the label folders "0".."5" *)
(*                                                                         *)
(* Images are records [h, w, px] with px[i][j] the pixel <<b, g, r>> of    *)
(* row i, column j (0-based, as numpy indexes them; img.shape = (h, w, 3)) *)
(***************************************************************************)
EXTENDS Integers, Sequences, FiniteSets, TLC

VARIABLES
    im,           \* the image handed to trim_and_resize
    output_size,  \* the output_size argument
    pc,           \* "call" before trim_and_resize runs, "done" after it
    res,          \* what trim_and_resize computed (see TrimAndResizeResult)
    in_dirs,      \* the label folders that exist under the input root
    in_files,     \* the files of the input tree: records [label, name, content]
    in_blocked,   \* the label paths that exist but that os.listdir cannot list (a
                  \* regular file of that name, a folder without read permission)
    out_root,     \* TRUE when the output root folder exists
    out_dirs,     \* the label folders that exist under the output root
    out_files,    \* the output tree: path <<label, name>> -> what the file holds
    dpc,          \* where the driver is: "idle" (never called), "subfolder" (line 52),
                  \* "files" (line 59), "finished" (returned), "crashed" (an exception
                  \* left process_and_save_images)
    sub,          \* index into Subfolders of the folder the loop is at
    todo,         \* the names of the current listing the inner loop has not visited
    log,          \* the lines printed by the current run
    loaded,       \* the paths cv2.imread was called on in the current run
    written,      \* the paths cv2.imwrite was called on in the current run
    visited,      \* <<path, existed>>: files the inner loop reached in this run, and
                  \* what os.path.exists(output_image_path) answered
    snap,         \* out_files as the current run found it
    prev_complete,\* TRUE when the run before the current one ran to its end
    uncaught      \* the call whose exception left process_and_save_images, or "none"

trim_vars == <<im, output_size, pc, res>>
tree_vars == <<in_dirs, in_files, in_blocked>>
driver_vars == <<out_root, out_dirs, out_files, dpc, sub, todo, log, loaded,
                 written, visited, snap, prev_complete, uncaught>>
vars == <<trim_vars, tree_vars, driver_vars>>

-----------------------------------------------------------------------------
(* Bounds of the input families *)

MaxSmallH == 2
MaxSmallW == 2
MaxSmallOut == 2
MaxSide == 13
MaxOut == 15
MaxWide == 50
MaxBright == 2
MaxSparseOut == 1
MaxFiles == 2

(* Pixel values <<b, g, r>> the input images are drawn from *)
Black == <<0, 0, 0>>
DimBlue == <<100, 0, 0>>
White == <<255, 255, 255>>
Palette == {Black, DimBlue, White}

-----------------------------------------------------------------------------
(* IEEE-754 double arithmetic of  int(x * (float(o) / m))  on integers      *)
(* 1 <= x <= m, 1 <= o, with x * o and 2 * m * o small enough for TLC.      *)

RECURSIVE Pow2(_)
Pow2(k) == IF k <= 0 THEN 1 ELSE 2 * Pow2(k - 1)

\* 2^s mod k
RECURSIVE PowMod2(_, _)
PowMod2(s, k) == IF s = 0 THEN 1 % k ELSE (2 * PowMod2(s - 1, k)) % k

\* the binary exponent e of the quotient o / m: 2^e <= o/m < 2^(e+1)
RECURSIVE ExpUp(_, _, _)
ExpUp(o, m, e) == IF m * Pow2(e + 1) <= o THEN ExpUp(o, m, e + 1) ELSE e
RECURSIVE ExpDown(_, _, _)
ExpDown(o, m, j) == IF o * Pow2(j) < m THEN ExpDown(o, m, j + 1) ELSE j
QuotExp(o, m) == IF o >= m THEN ExpUp(o, m, 0) ELSE 0 - ExpDown(o, m, 0)

\* the exponent eb of the doubles just below the integer n: 2^eb < n <= 2^(eb+1)
RECURSIVE BelowExp(_, _)
BelowExp(n, eb) == IF Pow2(eb + 1) < n THEN BelowExp(n, eb + 1) ELSE eb

\* ratio = float(o) / m is the double M * 2^(e-52) nearest to o/m (ties to
\* even); RatioErr is M*m - o*2^(52-e), the signed rounding error of the
\* quotient scaled by m * 2^(52-e).
RatioErr(o, m) ==
    LET s    == 52 - QuotExp(o, m)
        rem2 == (o * PowMod2(s, 2 * m)) % (2 * m)
        rem  == rem2 % m
        odd  == rem2 >= m
    IN  IF 2 * rem < m THEN 0 - rem
        ELSE IF 2 * rem > m THEN m - rem
        ELSE IF odd THEN m - rem ELSE 0 - rem

\* int(x * ratio): the product x * ratio is rounded to a double, then truncated.
\* When x*o/m is not an integer the rounding cannot cross an integer; when it
\* is the integer n and ratio was rounded down, the product lies just below n
\* and truncates to n - 1 unless it rounds back up to n.
ScaleTrunc(x, o, m) ==
    LET n == (x * o) \div m
        d == RatioErr(o, m)
        t == 1 + QuotExp(o, m) - BelowExp(n, 0 - 1)
        lhs == IF t >= 0 THEN x * (0 - d) * Pow2(t) ELSE x * (0 - d)
        rhs == IF t >= 0 THEN m ELSE m * Pow2(0 - t)
    IN  IF (x * o) % m # 0 THEN n
        ELSE IF d >= 0 THEN n
        ELSE IF lhs <= rhs THEN n ELSE n - 1

-----------------------------------------------------------------------------
(* trim_and_resize, lines 22-33: the crop *)

Rows(img) == 0 .. img.h - 1
Cols(img) == 0 .. img.w - 1

\* cv2.cvtColor(img, cv2.COLOR_BGR2GRAY) on 8-bit pixels: the fixed-point
\* rounding of 0.114 b + 0.587 g + 0.299 r (15 fractional bits)
BGR2GRAY(p) == (p[1] * 3735 + p[2] * 19235 + p[3] * 9798 + 16384) \div 32768

img_gray(img) == [i \in Rows(img) |-> [j \in Cols(img) |-> BGR2GRAY(img.px[i][j])]]

\* the sum f[0] + ... + f[n-1]
RECURSIVE SumTo(_, _)
SumTo(f, n) == IF n = 0 THEN 0 ELSE f[n - 1] + SumTo(f, n - 1)

\* img_gray[img_gray != 0]: the strictly non-zero intensities, as sum and count
NonZeroCount(g, img) ==
    LET cnt == [i \in Rows(img) |-> Cardinality({j \in Cols(img) : g[i][j] # 0})]
    IN  SumTo(cnt, img.h)
NonZeroSum(g, img) ==
    LET rs == [i \in Rows(img) |-> SumTo(g[i], img.w)]
    IN  SumTo(rs, img.h)

\* v > 0.1 * np.mean(nonzero).  The mean of an empty selection is NaN (numpy
\* warns, it does not raise) and every comparison with NaN is False.  With a
\* non-empty selection the double comparison agrees with 10 * v * cnt > sum:
\* the double 0.1 is above 1/10, so the threshold is >= v when sum = 10*v*cnt.
AboveThresholdNanTrue(v, sum, cnt) == IF cnt = 0 THEN TRUE ELSE 10 * v * cnt > sum
AboveThreshold(v, sum, cnt) == IF cnt = 0 THEN FALSE ELSE 10 * v * cnt > sum

im_binary(img) ==
    LET g   == img_gray(img)
        cnt == NonZeroCount(g, img)
        sum == NonZeroSum(g, img)
    IN  [i \in Rows(img) |-> [j \in Cols(img) |-> AboveThreshold(g[i][j], sum, cnt)]]

\* np.sum(im_binary, axis=1) and np.sum(im_binary, axis=0)
row_sums(img) ==
    LET b == im_binary(img)
    IN  [i \in Rows(img) |-> Cardinality({j \in Cols(img) : b[i][j]})]
col_sums(img) ==
    LET b == im_binary(img)
    IN  [j \in Cols(img) |-> Cardinality({i \in Rows(img) : b[i][j]})]

\* count > length * percentage with percentage = 0.02.  The double 0.02 is
\* above 1/50, so length * 0.02 never rounds below an integer length/50 and
\* the comparison agrees with 50 * count > length.
ExceedsPercentage(count, length) == 50 * count > length

\* np.where(row_sums > img.shape[1] * percentage)[0]
QualRows(img) ==
    LET rs == row_sums(img) IN {i \in Rows(img) : ExceedsPercentage(rs[i], img.w)}
\* np.where(col_sums > img.shape[0] * percentage)[0]
QualCols(img) ==
    LET cs == col_sums(img) IN {j \in Cols(img) : ExceedsPercentage(cs[j], img.h)}

Min(S) == CHOOSE x \in S : \A y \in S : x <= y
Max(S) == CHOOSE x \in S : \A y \in S : x >= y

\* img[min_row:max_row+1, min_col:max_col+1]
Slice(img, min_row, max_row, min_col, max_col) ==
    [h  |-> max_row + 1 - min_row,
     w  |-> max_col + 1 - min_col,
     px |-> [i \in 0 .. max_row - min_row |->
                [j \in 0 .. max_col - min_col |-> img.px[i + min_row][j + min_col]]]]

\* if rows.size and cols.size: crop to the bounding box, else keep img
CropAny(img) ==
    LET rows == QualRows(img)
        cols == QualCols(img)
    IN  IF rows # {} \/ cols # {}
        THEN Slice(img, IF rows = {} THEN 0 ELSE Min(rows),
                        IF rows = {} THEN img.h - 1 ELSE Max(rows),
                        IF cols = {} THEN 0 ELSE Min(cols),
                        IF cols = {} THEN img.w - 1 ELSE Max(cols))
        ELSE img
Crop(img) ==
    LET rows == QualRows(img)
        cols == QualCols(img)
    IN  IF rows # {} /\ cols # {}
        THEN Slice(img, Min(rows), Max(rows), Min(cols), Max(cols))
        ELSE img

-----------------------------------------------------------------------------
(* trim_and_resize, lines 34-41: resize and pad *)

MaxOf(a, b) == IF a >= b THEN a ELSE b

\* new_size = tuple([int(x * ratio) for x in old_size]), old_size = (w, h),
\* ratio = float(output_size) / max(old_size)
NewSize(w, h, o) ==
    <<ScaleTrunc(w, o, MaxOf(w, h)), ScaleTrunc(h, o, MaxOf(w, h))>>

\* im_pil.resize(new_size, ...) raises ValueError("height and width must be
\* > 0") when a side of new_size is below 1
ResizeRaises(new_size) == new_size[1] < 1 \/ new_size[2] < 1

\* the paste position ((output_size - new_size[0]) // 2, (output_size - new_size[1]) // 2)
PasteAt(new_size, o) == <<(o - new_size[1]) \div 2, (o - new_size[2]) \div 2>>

\* Everything trim_and_resize computes for (img, o).  raised: the call ends in
\* the ValueError of resize and returns nothing.  Otherwise out_w, out_h,
\* out_channels describe the returned Image.new("RGB", (o, o)) and the resized
\* content (new_size wide and high) occupies the canvas from paste_at on.
TrimAndResizeResult(img, o) ==
    LET cropped  == Crop(img)
        new_size == NewSize(cropped.w, cropped.h, o)
        raised   == ResizeRaises(new_size)
    IN  [rows         |-> QualRows(img),
         cols         |-> QualCols(img),
         cropped      |-> cropped,
         new_size     |-> new_size,
         raised       |-> raised,
         paste_at     |-> IF raised THEN <<0, 0>> ELSE PasteAt(new_size, o),
         out_w        |-> IF raised THEN 0 ELSE o,
         out_h        |-> IF raised THEN 0 ELSE o,
         out_channels |-> IF raised THEN 0 ELSE 3]

NoResult ==
    [rows |-> {}, cols |-> {}, cropped |-> [h |-> 0, w |-> 0, px |-> <<>>],
     new_size |-> <<0, 0>>, raised |-> FALSE, paste_at |-> <<0, 0>>,
     out_w |-> 0, out_h |-> 0, out_channels |-> 0]

-----------------------------------------------------------------------------
(* Input images *)

\* every image of at most MaxSmallH x MaxSmallW pixels over the palette
SmallImages ==
    UNION {UNION {{[h |-> hh, w |-> ww, px |-> p] :
                      p \in [0 .. hh - 1 -> [0 .. ww - 1 -> Palette]]} :
                  ww \in 1 .. MaxSmallW} : hh \in 1 .. MaxSmallH}

\* one-colour images of every size up to MaxSide x MaxSide
UniformImages ==
    {[h |-> hh, w |-> ww, px |-> [i \in 0 .. hh - 1 |-> [j \in 0 .. ww - 1 |-> c]]] :
        hh \in 1 .. MaxSide, ww \in 1 .. MaxSide, c \in Palette}

\* black images with at most MaxBright white pixels in the top left corner, with
\* sides of 1, 2 or about 50 pixels: the sizes at which 2% of a side is about
\* one pixel
SparseSides == (1 .. 2) \cup ((MaxWide - 1) .. MaxWide)
SparseSpots(hh, ww) ==
    {q \in ({0, 1} \X {0, 1}) : q[1] < hh /\ q[2] < ww}
SparseImages ==
    UNION {{[h |-> hh, w |-> ww,
             px |-> [i \in 0 .. hh - 1 |-> [j \in 0 .. ww - 1 |->
                        IF <<i, j>> \in B THEN White ELSE Black]]] :
               B \in {S \in SUBSET SparseSpots(hh, ww) : Cardinality(S) <= MaxBright}} :
           hh \in SparseSides, ww \in SparseSides}

-----------------------------------------------------------------------------
(* process_and_save_images: file names, paths and the two trees *)

\* the literal list of line 52
Subfolders == <<"0", "1", "2", "3", "4", "5">>
SubfolderSet == {Subfolders[k] : k \in 1 .. Len(Subfolders)}

\* output_size of the __main__ block
OutputSize == 2000

\* File names are sequences of characters.  str.lower() maps A-Z to a-z:
UpperCase ==
    <<"A", "B", "C", "D", "E", "F", "G", "H", "I", "J", "K", "L", "M",
      "N", "O", "P", "Q", "R", "S", "T", "U", "V", "W", "X", "Y", "Z">>
LowerCase ==
    <<"a", "b", "c", "d", "e", "f", "g", "h", "i", "j", "k", "l", "m",
      "n", "o", "p", "q", "r", "s", "t", "u", "v", "w", "x", "y", "z">>
Lower(c) ==
    IF \E k \in 1 .. Len(UpperCase) : UpperCase[k] = c
    THEN LowerCase[CHOOSE k \in 1 .. Len(UpperCase) : UpperCase[k] = c]
    ELSE c
LowerName(name) == [k \in 1 .. Len(name) |-> Lower(name[k])]

EndsWith(name, suffix) ==
    /\ Len(name) >= Len(suffix)
    /\ SubSeq(name, Len(name) - Len(suffix) + 1, Len(name)) = suffix

ImageSuffixes ==
    {<<".", "p", "n", "g">>, <<".", "j", "p", "g">>, <<".", "j", "p", "e", "g">>}

\* f.lower().endswith(('.png', '.jpg', '.jpeg'))
IsImageNameAny(name) == TRUE
IsImageName(name) == \E suffix \in ImageSuffixes : EndsWith(LowerName(name), suffix)

\* What a file of the input tree holds: "corrupt" (cv2.imread returns None) or
\* the width and height of a decodable image whose bright area fills the
\* frame, so that trim_and_resize resizes it uncropped.
Corrupt == [readable |-> FALSE, w |-> 0, h |-> 0]
ImageOf(ww, hh) == [readable |-> TRUE, w |-> ww, h |-> hh]

\* The image files an input folder is populated from: name -> content
Catalogue ==
    {[name |-> <<"A", ".", "P", "n", "G">>, content |-> ImageOf(4, 3)],
     [name |-> <<"b", ".", "j", "p", "e", "g">>, content |-> Corrupt],
     [name |-> <<"c", ".", "j", "p", "g">>, content |-> ImageOf(4001, 1)]}

\* a file that is no image by its name, though it decodes as one
TextFile == [name |-> <<"d", ".", "t", "x", "t">>, content |-> ImageOf(4, 3)]

FileOf(label, entry) == [label |-> label, name |-> entry.name, content |-> entry.content]

\* the subsets of S with at most k elements
SubsetsUpTo(S, k) == {T \in SUBSET S : Cardinality(T) <= k}

\* the folders the input files are put in: absent folders can come before
\* and between them
FileFolders == {"1", "5"}

\* the label whose path can exist without being listable: it lies between the
\* file folders, so that files come before and after it
UnlistableFolders == {"3"}

\* the input trees: any subset of the six label paths exists, those of
\* UnlistableFolders listable or not; the file folders among them hold the
\* text file and, in all, at most MaxFiles files of the catalogue
InputTrees ==
    UNION {{[dirs    |-> D,
             blocked |-> B,
             files   |-> F \cup {FileOf(l, TextFile) : l \in D \cap FileFolders}] :
               F \in SubsetsUpTo({FileOf(l, e) : l \in D \cap FileFolders, e \in Catalogue},
                                 MaxFiles),
               B \in SUBSET (D \cap UnlistableFolders)} :
           D \in SUBSET SubfolderSet}

\* os.path.join(output_path_folder, subfolder, img_file) relative to the output
\* root; os.path.join(subfolder_path, img_file) is the same pair under the input root
Path(label, name) == <<label, name>>

\* os.listdir(subfolder_path) filtered by extension (line 58)
Listing(label) == {f.name : f \in {g \in in_files : g.label = label /\ IsImageName(g.name)}}

ContentOf(label, name) ==
    (CHOOSE f \in in_files : f.label = label /\ f.name = name).content

\* os.path.exists(output_image_path)
OutputNeverExists(path) == FALSE
OutputExistsComplete(path) == path \in DOMAIN out_files /\ out_files[path] = "complete"
OutputExists(path) == path \in DOMAIN out_files

\* trim_and_resize(image_original, output_size) raises for this image
TrimRaises(content, o) == ResizeRaises(NewSize(content.w, content.h, o))

\* the lines the driver prints
SkipSubfolderLine(label) == [line |-> "Subfolder does not exist. Skipping.", at |-> <<label>>]
SkippingLine(path) == [line |-> "Skipping, already exists.", at |-> path]
ProcessedLine(path) == [line |-> "Processed and saved", at |-> path]
ErrorLine(path, msg) == [line |-> "Error processing", at |-> path, msg |-> msg]

\* what the environment can do to the calls of the try block: os.makedirs or
\* apply_clahe raises, or cv2.imwrite cannot write the file, which it reports
\* by returning False (line 73 drops the value)
Faults == {"none", "makedirs", "apply_clahe", "imwrite"}

\* where KeyboardInterrupt can strike inside the try block with an effect on
\* the output tree: past os.makedirs of line 67 and before cv2.imwrite has
\* created the file, or while cv2.imwrite is writing it
Cuts == {"past_makedirs", "in_imwrite"}

Extend(f, x, v) == [y \in DOMAIN f \cup {x} |-> IF y = x THEN v ELSE f[y]]

DriverIdle ==
    /\ out_root = FALSE /\ out_dirs = {} /\ out_files = <<>>
    /\ dpc = "idle" /\ sub = 1 /\ todo = {}
    /\ log = <<>> /\ loaded = <<>> /\ written = <<>> /\ visited = {}
    /\ snap = <<>> /\ prev_complete = FALSE /\ uncaught = "none"

-----------------------------------------------------------------------------
(* process_and_save_images: the steps *)

\* a call of process_and_save_images (lines 48-49, then the loop of line 52):
\* a missing output root is created, and when os.makedirs raises (line 49 is
\* in no try block) the exception leaves the function
StartRun ==
    /\ dpc \in {"idle", "finished", "crashed"}
    /\ \/ /\ out_root' = TRUE
          /\ dpc' = "subfolder"
          /\ uncaught' = "none"
       \/ /\ ~out_root
          /\ out_root' = FALSE
          /\ dpc' = "crashed"
          /\ uncaught' = "os.makedirs(output_path_folder)"
    /\ prev_complete' = (dpc = "finished")
    /\ snap' = out_files
    /\ sub' = 1
    /\ todo' = {}
    /\ log' = <<>> /\ loaded' = <<>> /\ written' = <<>> /\ visited' = {}
    /\ UNCHANGED <<out_dirs, out_files, trim_vars, tree_vars>>

\* lines 53-58: an absent folder is reported and passed over, a present one is
\* listed; when os.listdir raises (line 58 is outside the try block) the
\* exception leaves the function
AbortOnMissing ==
    /\ dpc' = "finished"
    /\ log' = Append(log, SkipSubfolderLine(Subfolders[sub]))
    /\ UNCHANGED <<sub, todo, uncaught>>
SkipMissing ==
    /\ dpc' = "subfolder"
    /\ sub' = sub + 1
    /\ log' = Append(log, SkipSubfolderLine(Subfolders[sub]))
    /\ UNCHANGED <<todo, uncaught>>
EnterSubfolder ==
    /\ dpc = "subfolder"
    /\ sub <= Len(Subfolders)
    /\ \/ /\ Subfolders[sub] \notin in_dirs
          /\ SkipMissing
       \/ /\ Subfolders[sub] \in in_dirs \ in_blocked
          /\ todo' = Listing(Subfolders[sub])
          /\ dpc' = "files"
          /\ UNCHANGED <<sub, log, uncaught>>
       \/ /\ Subfolders[sub] \in in_blocked
          /\ dpc' = "crashed"
          /\ uncaught' = "os.listdir(subfolder_path)"
          /\ UNCHANGED <<sub, todo, log>>
    /\ UNCHANGED <<out_root, out_dirs, out_files, loaded, written, visited,
                   snap, prev_complete, trim_vars, tree_vars>>

\* What the try block of lines 63-76 does to a file whose output is missing,
\* when the environment fails the call `fault` (or none).  cut: "no", or the
\* point of Cuts where the process is interrupted.
\* The result is [dirs, files, loaded, written, lines, propagates].
SwallowNothing(label, name, fault, cut) ==
    [dirs |-> out_dirs, files |-> out_files, loaded |-> <<>>, written |-> <<>>,
     lines |-> <<>>, propagates |-> TRUE]
TryBlock(label, name, fault, cut) ==
    LET path    == Path(label, name)
        content == ContentOf(label, name)
        made    == out_dirs \cup {label}
        failed(dirs, ld, wr, msg) ==
            [dirs |-> dirs, files |-> out_files, loaded |-> ld, written |-> wr,
             lines |-> <<ErrorLine(path, msg)>>, propagates |-> FALSE]
    IN  IF fault = "makedirs"
        THEN failed(out_dirs, <<>>, <<>>, "makedirs failed")
        ELSE IF cut = "past_makedirs"
        THEN [dirs |-> made, files |-> out_files, loaded |-> <<>>, written |-> <<>>,
              lines |-> <<>>, propagates |-> FALSE]
        ELSE IF content = Corrupt
        THEN [dirs |-> made, files |-> out_files, loaded |-> <<path>>, written |-> <<>>,
              lines |-> <<>>, propagates |-> FALSE]
        ELSE IF TrimRaises(content, output_size)
        THEN failed(made, <<path>>, <<>>, "height and width must be > 0")
        ELSE IF fault = "apply_clahe"
        THEN failed(made, <<path>>, <<>>, "apply_clahe failed")
        ELSE IF fault = "imwrite"
        THEN [dirs |-> made, files |-> out_files, loaded |-> <<path>>,
              written |-> <<path>>, lines |-> <<ProcessedLine(path)>>,
              propagates |-> FALSE]
        ELSE IF cut = "in_imwrite"
        THEN [dirs |-> made, files |-> Extend(out_files, path, "partial"),
              loaded |-> <<path>>, written |-> <<path>>, lines |-> <<>>,
              propagates |-> FALSE]
        ELSE [dirs |-> made, files |-> Extend(out_files, path, "complete"),
              loaded |-> <<path>>, written |-> <<path>>,
              lines |-> <<ProcessedLine(path)>>, propagates |-> FALSE]

\* the faults that can strike this file: makedirs is called only when the
\* output folder is missing, apply_clahe and imwrite only when the calls
\* before them returned
FaultPossible(label, name, fault) ==
    LET content == ContentOf(label, name)
        reaches == content # Corrupt /\ ~TrimRaises(content, output_size)
    IN  \/ fault = "none"
        \/ fault = "makedirs" /\ label \notin out_dirs
        \/ fault \in {"apply_clahe", "imwrite"} /\ reaches

\* one iteration of the loop of line 59 (lines 60-78)
ProcessFile ==
    /\ dpc = "files"
    /\ \E name \in todo :
        LET label == Subfolders[sub]
            path  == Path(label, name)
        IN  /\ todo' = todo \ {name}
            /\ visited' = visited \cup {<<path, OutputExists(path)>>}
            /\ \/ /\ OutputExists(path)
                  /\ log' = Append(log, SkippingLine(path))
                  /\ UNCHANGED <<out_dirs, out_files, loaded, written, dpc, uncaught>>
               \/ /\ ~OutputExists(path)
                  /\ \E fault \in Faults :
                        /\ FaultPossible(label, name, fault)
                        /\ LET r == TryBlock(label, name, fault, "no")
                           IN  /\ out_dirs' = r.dirs
                               /\ out_files' = r.files
                               /\ loaded' = loaded \o r.loaded
                               /\ written' = written \o r.written
                               /\ log' = log \o r.lines
                               /\ dpc' = IF r.propagates THEN "crashed" ELSE "files"
                               /\ uncaught' = IF r.propagates THEN "try block" ELSE uncaught
    /\ UNCHANGED <<out_root, sub, snap, prev_complete, trim_vars, tree_vars>>

\* the listing is exhausted: the outer loop moves to the next folder
NextSubfolder ==
    /\ dpc = "files"
    /\ todo = {}
    /\ dpc' = "subfolder"
    /\ sub' = sub + 1
    /\ UNCHANGED <<out_root, out_dirs, out_files, todo, log, loaded, written,
                   visited, snap, prev_complete, uncaught, trim_vars, tree_vars>>

\* the outer loop is exhausted: process_and_save_images returns
Finish ==
    /\ dpc = "subfolder"
    /\ sub > Len(Subfolders)
    /\ dpc' = "finished"
    /\ UNCHANGED <<out_root, out_dirs, out_files, sub, todo, log, loaded,
                   written, visited, snap, prev_complete, uncaught, trim_vars,
                   tree_vars>>

\* The process is interrupted (KeyboardInterrupt is no Exception, so line 75
\* does not catch it) and process_and_save_images is called again on the same
\* folders.  The interrupt strikes between two iterations, or inside the try
\* block of a file at one of the points of Cuts: the output folder made and
\* no file yet, or cv2.imwrite writing the file.
InterruptAndRestart ==
    /\ dpc \in {"subfolder", "files"}
    /\ \/ UNCHANGED <<out_dirs, out_files>>
       \/ /\ dpc = "files"
          /\ \E name \in todo, cut \in Cuts :
                LET label == Subfolders[sub]
                    path  == Path(label, name)
                    r     == TryBlock(label, name, "none", cut)
                IN  /\ ~OutputExists(path)
                    /\ <<r.dirs, r.files>> # <<out_dirs, out_files>>
                    /\ out_dirs' = r.dirs
                    /\ out_files' = r.files
    /\ prev_complete' = FALSE
    /\ uncaught' = "none"
    /\ snap' = out_files'
    /\ dpc' = "subfolder"
    /\ sub' = 1
    /\ todo' = {}
    /\ log' = <<>> /\ loaded' = <<>> /\ written' = <<>> /\ visited' = {}
    /\ UNCHANGED <<out_root, trim_vars, tree_vars>>

DriverInit ==
    /\ \E t \in InputTrees :
          in_dirs = t.dirs /\ in_files = t.files /\ in_blocked = t.blocked
    /\ DriverIdle
    /\ im = [h |-> 0, w |-> 0, px |-> <<>>]
    /\ output_size = OutputSize
    /\ pc = "driver"
    /\ res = NoResult

DriverNext ==
    \/ StartRun
    \/ EnterSubfolder
    \/ ProcessFile
    \/ NextSubfolder
    \/ Finish
    \/ InterruptAndRestart

DriverSpec == DriverInit /\ [][DriverNext]_vars

-----------------------------------------------------------------------------
(* Specification of trim_and_resize *)

Init ==
    /\ \/ im \in SmallImages /\ output_size \in 1 .. MaxSmallOut
       \/ im \in UniformImages /\ output_size \in 1 .. MaxOut
       \/ im \in SparseImages /\ output_size \in 1 .. MaxSparseOut
    /\ pc = "call"
    /\ res = NoResult
    /\ in_dirs = {} /\ in_files = {} /\ in_blocked = {}
    /\ DriverIdle

\* new_im = trim_and_resize(im, output_size)
TrimAndResize ==
    /\ pc = "call"
    /\ res' = TrimAndResizeResult(im, output_size)
    /\ pc' = "done"
    /\ UNCHANGED <<im, output_size, tree_vars, driver_vars>>

Next == TrimAndResize

Spec == Init /\ [][Next]_vars

-----------------------------------------------------------------------------
(* Properties of trim_and_resize, checked under Spec *)

Done == pc = "done"

\* C1 (as claimed): for every image and every positive output_size,
\* trim_and_resize returns, without raising, an image exactly output_size wide
\* and high with 3 channels.
C1_AlwaysReturnsSquare ==
    Done => /\ ~res.raised
            /\ res.out_w = output_size
            /\ res.out_h = output_size
            /\ res.out_channels = 3

\* the padding above and below the pasted content
PadTop == res.paste_at[2]
PadBottom == output_size - res.new_size[2] - res.paste_at[2]

\* round(a / b), halves up
Rounded(a, b) == (2 * a + b) \div (2 * b)

\* the three parts of the claim C3, for a call that returned
WidthIsOutputSize == res.new_size[1] = output_size
HeightIsRounded ==
    res.new_size[2] = Rounded(output_size * res.cropped.h, res.cropped.w)
PaddingIsEqual == PadTop = PadBottom

\* C3 (as claimed): when the post-crop image has W >= H and the call returns,
\* the resized content is output_size wide and round(output_size * H / W)
\* high, with equal padding above and below.
C3_RoundedHeightEqualPadding ==
    (Done /\ res.cropped.w >= res.cropped.h /\ ~res.raised) =>
        /\ WidthIsOutputSize
        /\ HeightIsRounded
        /\ PaddingIsEqual

AllBlack(img) == \A i \in Rows(img) : \A j \in Cols(img) : img.px[i][j] = Black

\* C4: for an all-black image (no non-zero pixel enters the threshold mean)
\* the crop step finds no qualifying row or column and hands the resize step
\* the image with its original height, width and pixels.
C4_AllBlackUncropped ==
    (Done /\ AllBlack(im)) =>
        /\ res.rows = {}
        /\ res.cols = {}
        /\ res.cropped = im

\* C4 witness: trim_and_resize has run on an all-black image of several rows
\* and columns
C4_Witness == Done /\ AllBlack(im) /\ im.h >= 2 /\ im.w >= 2

\* C10: a row qualifies iff its mask count exceeds 2% of the width, a column
\* iff its count exceeds 2% of the height; the image is cropped only when a
\* row and a column qualify, and then to exactly the inclusive box of the
\* least and greatest qualifying rows and columns, which is non-empty, lies
\* inside the image and holds every qualifying row and column; otherwise the
\* image is left as it is.
C10_CropBox ==
    Done =>
        LET mask == im_binary(im)
            inRow(i) == Cardinality({j \in Cols(im) : mask[i][j]})
            inCol(j) == Cardinality({i \in Rows(im) : mask[i][j]})
        IN
        /\ res.rows = {i \in Rows(im) : 100 * inRow(i) > 2 * im.w}
        /\ res.cols = {j \in Cols(im) : 100 * inCol(j) > 2 * im.h}
        /\ (res.rows = {} \/ res.cols = {}) => res.cropped = im
        /\ (res.rows # {} /\ res.cols # {}) =>
              \E r0 \in res.rows, r1 \in res.rows, c0 \in res.cols, c1 \in res.cols :
                  /\ \A i \in res.rows : r0 <= i /\ i <= r1
                  /\ \A j \in res.cols : c0 <= j /\ j <= c1
                  /\ 0 <= r0 /\ r1 <= im.h - 1 /\ 0 <= c0 /\ c1 <= im.w - 1
                  /\ res.cropped.h = r1 - r0 + 1 /\ res.cropped.h >= 1
                  /\ res.cropped.w = c1 - c0 + 1 /\ res.cropped.w >= 1
                  /\ \A i \in 0 .. r1 - r0 : \A j \in 0 .. c1 - c0 :
                        res.cropped.px[i][j] = im.px[r0 + i][c0 + j]

\* C10 witness: rows qualify but no column does (each lit column holds one
\* mask pixel, which is not more than 2% of the height), and the image is
\* left uncropped
C10_Witness ==
    /\ Done
    /\ res.rows # {} /\ res.cols = {}
    /\ im.h >= 50
    /\ res.cropped = im

-----------------------------------------------------------------------------
(* Properties of process_and_save_images, checked under DriverSpec *)

InLog(l) == \E k \in 1 .. Len(log) : log[k] = l
InSeq(q, x) == \E k \in 1 .. Len(q) : q[k] = x
Times(q, x) == Cardinality({k \in 1 .. Len(q) : q[k] = x})
Visited(path) == <<path, TRUE>> \in visited \/ <<path, FALSE>> \in visited

\* the listing of a folder as the claims describe it: the names with a .png,
\* .jpg or .jpeg extension in any mix of cases
HasImageExtension(name) ==
    LET n == Len(name)
        ch(k, lo, up) == name[k] = lo \/ name[k] = up
    IN  \/ /\ n >= 4 /\ name[n - 3] = "."
           /\ ch(n - 2, "p", "P") /\ ch(n - 1, "n", "N") /\ ch(n, "g", "G")
        \/ /\ n >= 4 /\ name[n - 3] = "."
           /\ ch(n - 2, "j", "J") /\ ch(n - 1, "p", "P") /\ ch(n, "g", "G")
        \/ /\ n >= 5 /\ name[n - 4] = "."
           /\ ch(n - 3, "j", "J") /\ ch(n - 2, "p", "P")
           /\ ch(n - 1, "e", "E") /\ ch(n, "g", "G")
ImageFiles == {f \in in_files : HasImageExtension(f.name)}

\* the folders the outer loop has dealt with
Passed == {k \in 1 .. Len(Subfolders) : k < sub}

\* what the outer loop has done with the folders it has passed: one skip line
\* for an absent one, every image file visited for a present one, and no
\* skip line for a folder it has not reached
PassedInOrder ==
    /\ \A k \in Passed :
          IF Subfolders[k] \in in_dirs
          THEN /\ ~InLog(SkipSubfolderLine(Subfolders[k]))
               /\ \A f \in ImageFiles :
                     f.label = Subfolders[k] => Visited(<<f.label, f.name>>)
          ELSE Times(log, SkipSubfolderLine(Subfolders[k])) = 1
    /\ \A k \in 1 .. Len(Subfolders) :
          k > sub => ~InLog(SkipSubfolderLine(Subfolders[k]))

\* C5 (as claimed): whichever label folders are absent, the driver prints one
\* skip line for each absent folder, raises no error, and processes every
\* present folder, in the order "0".."5".
C5_AbsentFoldersNoError ==
    /\ dpc # "crashed"
    /\ PassedInOrder
    /\ dpc = "finished" => sub = Len(Subfolders) + 1

\* C5 (amended): whichever label folders are absent, the driver prints one
\* skip line for each absent folder it reaches and no absent folder makes it
\* raise or stop; it visits every image file of every present folder it has
\* passed, in the order "0".."5", and a run that returns has dealt with all
\* six.  The run raises only when the output root cannot be created (before
\* the loop) or when a label path that exists cannot be listed (at that
\* folder); when neither happens it returns without an error.
C5_AbsentFoldersSkipped ==
    /\ PassedInOrder
    /\ dpc = "finished" => sub = Len(Subfolders) + 1
    /\ dpc = "crashed" =>
          \/ uncaught = "os.makedirs(output_path_folder)" /\ ~out_root /\ log = <<>>
          \/ /\ uncaught = "os.listdir(subfolder_path)"
             /\ sub <= Len(Subfolders)
             /\ Subfolders[sub] \in in_dirs \cap in_blocked
    /\ (dpc # "crashed") <=> (uncaught = "none")

\* C5 witness: a finished run that skipped the absent folders "0" and "4"
\* and afterwards processed and saved a file of folder "5"
C5_Witness ==
    /\ dpc = "finished"
    /\ "0" \notin in_dirs /\ "4" \notin in_dirs
    /\ \E i \in 1 .. Len(log), j \in 1 .. Len(log) :
          /\ i < j
          /\ log[i] = SkipSubfolderLine("4")
          /\ log[j].line = "Processed and saved" /\ log[j].at[1] = "5"

IsError(l) == l.line = "Error processing"

\* C6: an exception raised by any call of the per-file block is caught and
\* printed with the file's path and its message, and the loop goes on: no
\* exception of the per-file block ever leaves the function (a run ends in a
\* failure only through os.makedirs of the output root or os.listdir, which
\* are outside the block), every file of the folders passed has been visited
\* whatever was raised before it, and a file whose processing raised has its
\* error line and no output.
C6_ErrorsCaughtAndLogged ==
    /\ uncaught \in {"none", "os.makedirs(output_path_folder)",
                     "os.listdir(subfolder_path)"}
    /\ dpc = "crashed" => uncaught # "none"
    /\ \A k \in 1 .. Len(log) :
          IsError(log[k]) =>
              /\ Visited(log[k].at)
              /\ log[k].msg # ""
              /\ log[k].at \notin DOMAIN out_files
    /\ \A f \in ImageFiles :
          LET path == <<f.label, f.name>>
          IN  /\ (\E k \in Passed : Subfolders[k] = f.label) => Visited(path)
              /\ (<<path, FALSE>> \in visited /\ f.content.readable
                    /\ output_size * f.content.h < f.content.w) =>
                    \E k \in 1 .. Len(log) : IsError(log[k]) /\ log[k].at = path
    /\ dpc = "finished" => \A f \in ImageFiles : Visited(<<f.label, f.name>>)

\* C6 witness: a finished run that printed an error for one file and after it
\* processed and saved another file
C6_Witness ==
    /\ dpc = "finished"
    /\ \E i \in 1 .. Len(log), j \in 1 .. Len(log) :
          /\ i < j
          /\ IsError(log[i])
          /\ log[j].line = "Processed and saved"

\* C7 (as claimed): when cv2.imread returns None for a file, the driver prints
\* a line for that file, writes no output for it and goes on.
C7_LoadFailureLogged ==
    \A f \in in_files :
        LET path == <<f.label, f.name>>
        IN  (InSeq(loaded, path) /\ ~f.content.readable) =>
                /\ \E k \in 1 .. Len(log) : log[k].at = path
                /\ ~InSeq(written, path)
                /\ path \notin DOMAIN out_files

\* C2 (as claimed): a run that follows a complete run changes nothing in the
\* output tree, because every file it visits has its output and is skipped.
C2_SecondRunSkipsEverything ==
    prev_complete =>
        /\ out_files = snap
        /\ loaded = <<>> /\ written = <<>>
        /\ \A v \in visited : v[2]

\* C2 (amended): a run that follows a complete run skips every file whose
\* output exists and leaves every output the first run left untouched; a file
\* the first run left without output (its load failed, its processing raised
\* or cv2.imwrite could not write it) is not skipped: its per-file block is
\* entered again, and it is loaded again unless os.makedirs of its label
\* folder raises first, in which case that error is printed and the file
\* stays without output.  The second run can only add outputs, for such
\* files.
C2_SecondRunKeepsOutputs ==
    prev_complete =>
        /\ \A path \in DOMAIN snap :
              /\ path \in DOMAIN out_files /\ out_files[path] = snap[path]
              /\ ~InSeq(loaded, path) /\ ~InSeq(written, path)
              /\ Visited(path) => InLog(SkippingLine(path))
        /\ \A f \in ImageFiles :
              LET path == <<f.label, f.name>>
              IN  /\ (Visited(path) /\ path \notin DOMAIN snap) =>
                        ~InLog(SkippingLine(path))
                  /\ (Visited(path) /\ path \notin DOMAIN snap) =>
                        /\ InSeq(loaded, path) <=>
                              ~InLog(ErrorLine(path, "makedirs failed"))
                        /\ InLog(ErrorLine(path, "makedirs failed")) =>
                              /\ \A q \in DOMAIN snap : q[1] # f.label
                              /\ path \notin DOMAIN out_files
                  /\ InSeq(loaded, path) => <<path, FALSE>> \in visited
        /\ \A path \in DOMAIN out_files :
              path \notin DOMAIN snap => InSeq(written, path)

\* C2 witness: a finished second run after a complete first run that left two
\* files without output: the second run loaded one of them again and was
\* stopped by os.makedirs before loading the other
C2_Witness ==
    /\ prev_complete /\ dpc = "finished"
    /\ \E v \in visited : ~v[2] /\ InSeq(loaded, v[1])
    /\ \E v \in visited :
          ~v[2] /\ ~InSeq(loaded, v[1]) /\ InLog(ErrorLine(v[1], "makedirs failed"))

\* C8: in every run, restarted or not, a file whose output path exists when
\* the loop reaches it is neither loaded nor written and its output stays as
\* it was, complete or partial; the files loaded and processed are exactly
\* those whose output path is missing when they are reached.
C8_ExistenceIsTheRecord ==
    /\ \A v \in visited :
          LET path == v[1]
          IN  /\ v[2] <=> path \in DOMAIN snap
              /\ v[2] => /\ ~InSeq(loaded, path) /\ ~InSeq(written, path)
                         /\ out_files[path] = snap[path]
                         /\ InLog(SkippingLine(path))
              /\ ~v[2] => /\ ~InLog(SkippingLine(path))
                          /\ \/ InSeq(loaded, path)
                             \/ InLog(ErrorLine(path, "makedirs failed"))
    /\ \A k \in 1 .. Len(loaded) : <<loaded[k], FALSE>> \in visited
    /\ \A k \in 1 .. Len(written) : <<written[k], FALSE>> \in visited
    /\ \A path \in DOMAIN snap : path \in DOMAIN out_files /\ out_files[path] = snap[path]

\* C8 witness: a run restarted after an interruption reached a file whose
\* output is a partial file, skipped it and left it partial
C8_Witness ==
    \E path \in DOMAIN snap :
        /\ snap[path] = "partial"
        /\ <<path, TRUE>> \in visited
        /\ out_files[path] = "partial"
        /\ InLog(SkippingLine(path))

\* C9: within one run no output path is written twice, and every path
\* written is <label>/<name> for a label of "0".."5" and the unchanged name of
\* a file of that input folder with a .png, .jpg or .jpeg extension in any
\* case; the output tree holds no other file.
C9_WritesMirrorInputs ==
    /\ \A k \in 1 .. Len(written) :
          /\ Times(written, written[k]) = 1
          /\ written[k][1] \in SubfolderSet
          /\ \E f \in ImageFiles : f.label = written[k][1] /\ f.name = written[k][2]
    /\ \A path \in DOMAIN out_files :
          \E f \in ImageFiles : f.label = path[1] /\ f.name = path[2]

\* C9 witness: the file A.PnG of folder "1" was written under its own name
C9_Witness ==
    /\ InSeq(written, <<"1", <<"A", ".", "P", "n", "G">>>>)
    /\ <<"1", <<"A", ".", "P", "n", "G">>>> \in DOMAIN out_files

====
